---- MODULE Spec2Model ----
(***************************************************************************)
(* A model of the cooperative task scheduler of crates/task:               *)
(*   executor.rs  SimpleExecutor (FIFO busy polling, inert waker),         *)
(*                Executor (live-task map, bounded ready queue, waker      *)
(*                cache) and TaskWaker;                                    *)
(*   keyboard.rs  the process-wide scancode queue, the single-slot WAKER,  *)
(*                add_scancode (the producer, a second execution context), *)
(*                ScancodeStream::poll_next and print_keypresses.          *)
(* The poller context and the producer context interleave at the           *)
(* boundaries of the atomic operations on the two lock-free queues and on  *)
(* the waker slot.                                                         *)
(***************************************************************************)
EXTENDS Integers, Sequences, FiniteSets, TLC

(* ------------------------------ bounds -------------------------------- *)

\* Task ids are drawn from 1..MaxTasks.
MaxTasks == 3

\* Capacity of the ready queue (ArrayQueue::new(100) in Executor::new).
ReadyQueueCap == 2

\* Capacity of the scancode queue (ArrayQueue::new(100) in ScancodeStream::new).
ScancodeQueueCap == 2

\* Number of calls of add_scancode in one behaviour.
MaxScancodes == 3

(* ------------------------------ values -------------------------------- *)

TaskIds == 1..MaxTasks

\* Raw bytes the producer delivers (0x1E and 0x1F, two letter keys).
Scancodes == {30, 31}

\* The futures handed to the executors: example_task, print_keypresses and
\* an arbitrary future that may keep clones of its waker.
RepoKinds == {"example_task", "print_keypresses"}

Kinds == RepoKinds \cup {"future"}

NoWaker == [kind |-> "none", task_id |-> 0, serial |-> 0]

dummy_waker == [kind |-> "dummy", task_id |-> 0, serial |-> 0]

TaskWaker_new(task_id, serial) == [kind |-> "task", task_id |-> task_id, serial |-> serial]

Task_new(id, kind) == [id |-> id, kind |-> kind, pc |-> "start", scancode |-> 0]

Idle == [executor |-> "none", task |-> Task_new(0, "none"), waker |-> NoWaker]

NoPoll == [result |-> "none", path |-> "none", scancode |-> 0]

VARIABLES
  SCANCODE_INIT,    \* the OnceCell SCANCODE_QUEUE is initialized
  SCANCODE_QUEUE,   \* its ArrayQueue<u8>, head first
  WAKER,            \* the AtomicWaker slot
  producer,         \* add_scancode: [pc, scancode], and history [last outcome, uninit drops]
  phase,            \* "setup" (spawning), "run", "returned" (SimpleExecutor::run)
  tasks,            \* Executor.tasks: id -> Task
  task_queue,       \* Executor.task_queue, head first
  waker_cache,      \* Executor.waker_cache: id -> Waker
  running,          \* the poll in progress: [executor, task, waker], or Idle
  simple_queue,     \* SimpleExecutor.task_queue, head first
  held,             \* clones of TaskWakers kept by arbitrary futures
  fatal,            \* "none", or the message of the panic that stopped the process
  wakers_made,      \* history: number of TaskWaker::new calls
  calls,            \* history: number of add_scancode calls
  pushed,           \* history: scancodes pushed successfully, in order
  delivered,        \* history: scancodes returned by poll_next, in order
  last_poll,        \* history: outcome of the last poll_next that returned
  reg_woken,        \* history: invocations of the waker of the last registration
  since_pending,    \* history: successful pushes between the last suspension of
                    \* poll_next and the return of the poll_next after it
  pass,             \* history: [active, left, late, skipped] of the current
                    \* run_ready_tasks call and of its last turn
  polled_since,     \* history: polled_since[t][u] counts (up to 2) the polls of u that
                    \* SimpleExecutor::run began since it last began a poll of t
  wake_credit       \* history: wake_credit[t] is 1 for the spawn of t on the Executor,
                    \* plus the wakes issued for t, minus the entries of t dequeued

streamVars == <<SCANCODE_INIT, SCANCODE_QUEUE, WAKER>>

streamHistory == <<pushed, delivered, last_poll, reg_woken, since_pending>>

vars == <<SCANCODE_INIT, SCANCODE_QUEUE, WAKER, producer, phase, tasks, task_queue,
          waker_cache, running, simple_queue, held, fatal, wakers_made, calls, pushed,
          delivered, last_poll, reg_woken, since_pending, pass, polled_since, wake_credit>>

Alive == fatal = "none"

Range(s) == {s[i] : i \in 1..Len(s)}

Count(s, x) == Cardinality({i \in 1..Len(s) : s[i] = x})

Remove(f, x) == [y \in DOMAIN f \ {x} |-> f[y]]

Put(f, x, v) == [y \in DOMAIN f \cup {x} |-> IF y = x THEN v ELSE f[y]]

(* ------------------------------ Init ---------------------------------- *)

Init ==
  /\ SCANCODE_INIT = FALSE
  /\ SCANCODE_QUEUE = <<>>
  /\ WAKER = NoWaker
  /\ producer = [pc |-> "idle", scancode |-> 0, last |-> "none", uninit |-> 0]
  /\ phase = "setup"
  /\ tasks = <<>>
  /\ task_queue = <<>>
  /\ waker_cache = <<>>
  /\ running = Idle
  /\ simple_queue = <<>>
  /\ held = {}
  /\ fatal = "none"
  /\ wakers_made = 0
  /\ calls = 0
  /\ pushed = <<>>
  /\ delivered = <<>>
  /\ last_poll = NoPoll
  /\ reg_woken = 0
  /\ since_pending = 0
  /\ pass = [active |-> FALSE, left |-> 0, late |-> FALSE, skipped |-> FALSE]
  /\ polled_since = [t \in TaskIds |-> [u \in TaskIds |-> 0]]
  /\ wake_credit = [t \in TaskIds |-> 0]

(* ------------------- TaskWaker (executor.rs 104-133) ------------------- *)

\* TaskWaker::wake_task: push the bound id, panic when the queue is full.
wake_task(task_id) ==
  /\ IF Len(task_queue) < ReadyQueueCap
     THEN /\ task_queue' = Append(task_queue, task_id)
          /\ fatal' = fatal
     ELSE /\ task_queue' = task_queue
          /\ fatal' = "task queue full"
  /\ wake_credit' = [wake_credit EXCEPT ![task_id] = @ + 1]

\* Waker::wake / wake_by_ref through the vtable: a TaskWaker pushes its id,
\* the dummy waker's no_op does nothing.
Wake(waker) ==
  IF waker.kind = "task"
  THEN wake_task(waker.task_id)
  ELSE UNCHANGED <<task_queue, fatal, wake_credit>>

\* A holder of a clone of a TaskWaker invokes it: wake(self) consumes the
\* clone, wake_by_ref(&self) keeps it.
TaskWaker_wake(waker, by_ref) ==
  /\ Alive
  /\ waker \in held
  /\ wake_task(waker.task_id)
  /\ held' = IF by_ref THEN held ELSE held \ {waker}
  /\ UNCHANGED <<streamVars, producer, phase, tasks, waker_cache, running, simple_queue,
                 wakers_made, calls, streamHistory, pass, polled_since>>

(* ------------------- add_scancode (keyboard.rs 24-34) ------------------ *)

\* Mutant of add_scancode_push: a full queue makes room by dropping its oldest
\* byte, and the push goes on to wake the consumer.
add_scancode_push_overwrite(scancode) ==
  /\ Alive
  /\ producer.pc = "idle"
  /\ calls < MaxScancodes
  /\ calls' = calls + 1
  /\ IF ~SCANCODE_INIT
     THEN /\ producer' = [producer EXCEPT !.last = "uninitialized", !.uninit = @ + 1]
          /\ UNCHANGED <<SCANCODE_QUEUE, pushed, since_pending>>
     ELSE /\ SCANCODE_QUEUE' =
               Append(IF Len(SCANCODE_QUEUE) >= ScancodeQueueCap
                      THEN Tail(SCANCODE_QUEUE)
                      ELSE SCANCODE_QUEUE, scancode)
          /\ producer' = [producer EXCEPT !.pc = "wake", !.scancode = scancode,
                                           !.last = "pushed"]
          /\ pushed' = Append(pushed, scancode)
          /\ since_pending' = IF last_poll.result = "Pending"
                              THEN since_pending + 1
                              ELSE since_pending
  /\ UNCHANGED <<SCANCODE_INIT, WAKER, phase, tasks, task_queue, waker_cache, running,
                 simple_queue, held, fatal, wakers_made, delivered, last_poll,
                 reg_woken, pass, polled_since, wake_credit>>

\* try_get and queue.push: the byte is dropped when the queue is
\* uninitialized or full, and only a successful push goes on to WAKER.wake().
add_scancode_push(scancode) ==
  /\ Alive
  /\ producer.pc = "idle"
  /\ calls < MaxScancodes
  /\ calls' = calls + 1
  /\ IF ~SCANCODE_INIT
     THEN /\ producer' = [producer EXCEPT !.last = "uninitialized", !.uninit = @ + 1]
          /\ UNCHANGED <<SCANCODE_QUEUE, pushed, since_pending>>
     ELSE IF Len(SCANCODE_QUEUE) >= ScancodeQueueCap
     THEN /\ producer' = [producer EXCEPT !.last = "full"]
          /\ UNCHANGED <<SCANCODE_QUEUE, pushed, since_pending>>
     ELSE /\ SCANCODE_QUEUE' = Append(SCANCODE_QUEUE, scancode)
          /\ producer' = [producer EXCEPT !.pc = "wake", !.scancode = scancode,
                                           !.last = "pushed"]
          /\ pushed' = Append(pushed, scancode)
          /\ since_pending' = IF last_poll.result = "Pending"
                              THEN since_pending + 1
                              ELSE since_pending
  /\ UNCHANGED <<SCANCODE_INIT, WAKER, phase, tasks, task_queue, waker_cache, running,
                 simple_queue, held, fatal, wakers_made, delivered, last_poll,
                 reg_woken, pass, polled_since, wake_credit>>

\* Mutant of add_scancode_wake: the waker is invoked by reference and stays
\* registered.
add_scancode_wake_keeps ==
  /\ Alive
  /\ producer.pc = "wake"
  /\ producer' = [producer EXCEPT !.pc = "idle", !.scancode = 0]
  /\ Wake(WAKER)
  /\ reg_woken' = IF WAKER = NoWaker THEN reg_woken ELSE reg_woken + 1
  /\ UNCHANGED <<SCANCODE_INIT, SCANCODE_QUEUE, WAKER, phase, tasks, waker_cache, running,
                 simple_queue, held, wakers_made, calls, pushed, delivered, last_poll,
                 since_pending, pass, polled_since>>

\* WAKER.wake(): take the registered waker out of the slot, if any, and
\* invoke it.
add_scancode_wake ==
  /\ Alive
  /\ producer.pc = "wake"
  /\ producer' = [producer EXCEPT !.pc = "idle", !.scancode = 0]
  /\ WAKER' = NoWaker
  /\ Wake(WAKER)
  /\ reg_woken' = IF WAKER = NoWaker THEN reg_woken ELSE reg_woken + 1
  /\ UNCHANGED <<SCANCODE_INIT, SCANCODE_QUEUE, phase, tasks, waker_cache, running,
                 simple_queue, held, wakers_made, calls, pushed, delivered, last_poll,
                 since_pending, pass, polled_since>>

(* ------------- the match on task.poll in the two executors ------------- *)

\* Mutant of Executor_poll_ready: the cached waker is left behind.
Executor_poll_ready_keeps_waker(task) ==
  /\ tasks' = Remove(tasks, task.id)
  /\ UNCHANGED <<waker_cache, simple_queue>>

\* Executor::run_ready_tasks, Poll::Ready arm: the task and its cached waker
\* are removed.
Executor_poll_ready(task) ==
  /\ tasks' = Remove(tasks, task.id)
  /\ waker_cache' = Remove(waker_cache, task.id)
  /\ UNCHANGED simple_queue

\* Mutant of Executor_poll_pending: a suspended task's cached waker is dropped.
Executor_poll_pending_drops_waker(task) ==
  /\ tasks' = [tasks EXCEPT ![task.id] = task]
  /\ waker_cache' = Remove(waker_cache, task.id)
  /\ UNCHANGED simple_queue

\* Executor::run_ready_tasks, Poll::Pending arm: the task stays in the map,
\* advanced to where its future suspended.
Executor_poll_pending(task) ==
  /\ tasks' = [tasks EXCEPT ![task.id] = task]
  /\ UNCHANGED <<waker_cache, simple_queue>>

\* SimpleExecutor::run, Poll::Ready arm: the popped task is dropped.
SimpleExecutor_poll_ready(task) ==
  UNCHANGED <<tasks, waker_cache, simple_queue>>

\* Mutant of SimpleExecutor_poll_pending: the suspended task is not put back.
SimpleExecutor_poll_pending_drops(task) ==
  UNCHANGED <<tasks, waker_cache, simple_queue>>

\* Mutant of SimpleExecutor_poll_pending: the suspended task goes back to the
\* front of the queue.
SimpleExecutor_poll_pending_front(task) ==
  /\ simple_queue' = <<task>> \o simple_queue
  /\ UNCHANGED <<tasks, waker_cache>>

\* SimpleExecutor::run, Poll::Pending arm: the popped task goes to the tail.
SimpleExecutor_poll_pending(task) ==
  /\ simple_queue' = Append(simple_queue, task)
  /\ UNCHANGED <<tasks, waker_cache>>

\* task.poll returns `result` to the executor that called it.
PollReturns(task, result) ==
  /\ running' = Idle
  /\ IF running.executor = "Executor"
     THEN IF result = "Ready" THEN Executor_poll_ready(task) ELSE Executor_poll_pending(task)
     ELSE IF result = "Ready"
          THEN SimpleExecutor_poll_ready(task)
          ELSE SimpleExecutor_poll_pending(task)

\* The future goes on inside the same poll.
PollContinues(task) ==
  /\ running' = [running EXCEPT !.task = task]
  /\ UNCHANGED <<tasks, waker_cache, simple_queue>>

Polling(kind) == Alive /\ running # Idle /\ running.task.kind = kind

(* ------------------------- the spawned futures ------------------------- *)

\* example_task (main.rs 9-16): async_number is ready at once, so the first
\* poll completes.
example_task ==
  /\ Polling("example_task")
  /\ PollReturns(running.task, "Ready")
  /\ UNCHANGED <<streamVars, producer, phase, task_queue, held, fatal, wakers_made, calls,
                 streamHistory, pass, polled_since, wake_credit>>

\* An arbitrary future: one poll may keep a clone of the context's waker, and
\* reports completion or suspension.
future_poll(keep, result) ==
  /\ Polling("future")
  /\ held' = IF keep /\ running.waker.kind = "task" THEN held \cup {running.waker} ELSE held
  /\ PollReturns([running.task EXCEPT !.pc = "suspended"], result)
  /\ UNCHANGED <<streamVars, producer, phase, task_queue, fatal, wakers_made, calls,
                 streamHistory, pass, polled_since, wake_credit>>

\* Mutant of ScancodeStream_new: a second call installs a fresh queue.
ScancodeStream_new_reinit ==
  /\ Polling("print_keypresses")
  /\ running.task.pc = "start"
  /\ SCANCODE_INIT' = TRUE
  /\ SCANCODE_QUEUE' = <<>>
  /\ PollContinues([running.task EXCEPT !.pc = "next"])
  /\ fatal' = IF SCANCODE_INIT
              THEN "ScancodeStream::new should only be called once"
              ELSE fatal
  /\ UNCHANGED <<WAKER, producer, phase, task_queue, held, wakers_made, calls,
                 streamHistory, pass, polled_since, wake_credit>>

\* print_keypresses up to its loop (keyboard.rs 104-109): ScancodeStream::new
\* initializes the queue once and panics on a second initialization.
ScancodeStream_new ==
  /\ Polling("print_keypresses")
  /\ running.task.pc = "start"
  /\ IF SCANCODE_INIT
     THEN /\ fatal' = "ScancodeStream::new should only be called once"
          /\ UNCHANGED <<SCANCODE_INIT, SCANCODE_QUEUE, running, tasks, waker_cache,
                         simple_queue>>
     ELSE /\ SCANCODE_INIT' = TRUE
          /\ SCANCODE_QUEUE' = <<>>
          /\ PollContinues([running.task EXCEPT !.pc = "next"])
          /\ UNCHANGED fatal
  /\ UNCHANGED <<WAKER, producer, phase, task_queue, held, wakers_made, calls,
                 streamHistory, pass, polled_since, wake_credit>>

(* ---------------- ScancodeStream::poll_next (69-91) -------------------- *)

\* Mutant of poll_next_first_pop: the waker is registered before the first
\* pop, so the fast path touches the slot.
poll_next_first_pop_registers ==
  /\ Polling("print_keypresses")
  /\ running.task.pc = "next"
  /\ SCANCODE_INIT
  /\ WAKER' = running.waker
  /\ IF SCANCODE_QUEUE # <<>>
     THEN /\ SCANCODE_QUEUE' = Tail(SCANCODE_QUEUE)
          /\ delivered' = Append(delivered, Head(SCANCODE_QUEUE))
          /\ last_poll' = [result |-> "Ready", path |-> "fast",
                           scancode |-> Head(SCANCODE_QUEUE)]
          /\ PollContinues(running.task)
     ELSE /\ PollContinues([running.task EXCEPT !.pc = "register"])
          /\ UNCHANGED <<SCANCODE_QUEUE, delivered, last_poll>>
  /\ UNCHANGED <<SCANCODE_INIT, producer, phase, task_queue, held, fatal, wakers_made,
                 calls, pushed, reg_woken, since_pending, pass, polled_since, wake_credit>>

\* Mutant of poll_next_first_pop: the head byte is returned and left in the
\* queue.
poll_next_first_pop_peeks ==
  /\ Polling("print_keypresses")
  /\ running.task.pc = "next"
  /\ SCANCODE_INIT
  /\ IF SCANCODE_QUEUE # <<>>
     THEN /\ delivered' = Append(delivered, Head(SCANCODE_QUEUE))
          /\ last_poll' = [result |-> "Ready", path |-> "fast",
                           scancode |-> Head(SCANCODE_QUEUE)]
          /\ PollContinues(running.task)
     ELSE /\ PollContinues([running.task EXCEPT !.pc = "register"])
          /\ UNCHANGED <<delivered, last_poll>>
  /\ UNCHANGED <<SCANCODE_INIT, SCANCODE_QUEUE, WAKER, producer, phase, task_queue, held,
                 fatal, wakers_made, calls, pushed, reg_woken, since_pending, pass,
                 polled_since, wake_credit>>

\* try_get().expect(..) and the first queue.pop(): a byte is returned at
\* once, and print_keypresses loops to the next scancodes.next().await.
poll_next_first_pop ==
  /\ Polling("print_keypresses")
  /\ running.task.pc = "next"
  /\ IF ~SCANCODE_INIT
     THEN /\ fatal' = "scancode queue not initialized"
          /\ UNCHANGED <<SCANCODE_QUEUE, running, tasks, waker_cache, simple_queue,
                         delivered, last_poll>>
     ELSE IF SCANCODE_QUEUE # <<>>
     THEN /\ SCANCODE_QUEUE' = Tail(SCANCODE_QUEUE)
          /\ delivered' = Append(delivered, Head(SCANCODE_QUEUE))
          /\ last_poll' = [result |-> "Ready", path |-> "fast",
                           scancode |-> Head(SCANCODE_QUEUE)]
          /\ PollContinues(running.task)
          /\ UNCHANGED fatal
     ELSE /\ PollContinues([running.task EXCEPT !.pc = "register"])
          /\ UNCHANGED <<SCANCODE_QUEUE, fatal, delivered, last_poll>>
  /\ UNCHANGED <<SCANCODE_INIT, WAKER, producer, phase, task_queue, held, wakers_made,
                 calls, pushed, reg_woken, since_pending, pass, polled_since, wake_credit>>

\* Mutant of poll_next_register: a slot that holds a waker is left as it is,
\* and an empty slot stays empty.
poll_next_register_skips ==
  /\ Polling("print_keypresses")
  /\ running.task.pc = "register"
  /\ PollContinues([running.task EXCEPT !.pc = "pop2"])
  /\ UNCHANGED <<SCANCODE_INIT, SCANCODE_QUEUE, WAKER, producer, phase, task_queue, held,
                 fatal, wakers_made, calls, pushed, delivered, last_poll, reg_woken,
                 since_pending, pass, polled_since, wake_credit>>

\* WAKER.register(&cx.waker()): the slot is overwritten.
poll_next_register ==
  /\ Polling("print_keypresses")
  /\ running.task.pc = "register"
  /\ WAKER' = running.waker
  /\ reg_woken' = 0
  /\ PollContinues([running.task EXCEPT !.pc = "pop2"])
  /\ UNCHANGED <<SCANCODE_INIT, SCANCODE_QUEUE, producer, phase, task_queue, held, fatal,
                 wakers_made, calls, pushed, delivered, last_poll, since_pending, pass, polled_since, wake_credit>>

\* Mutant of poll_next_second_pop: no second check, the poll suspends right
\* after registering.
poll_next_no_second_pop ==
  /\ Polling("print_keypresses")
  /\ running.task.pc = "pop2"
  /\ last_poll' = [result |-> "Pending", path |-> "slow", scancode |-> 0]
  /\ since_pending' = 0
  /\ PollReturns([running.task EXCEPT !.pc = "next"], "Pending")
  /\ UNCHANGED <<SCANCODE_INIT, SCANCODE_QUEUE, WAKER, producer, phase, task_queue, held,
                 fatal, wakers_made, calls, pushed, delivered, reg_woken, pass, polled_since, wake_credit>>

\* Mutant of poll_next_second_pop: an empty second pop registers and pops
\* again instead of suspending.
poll_next_second_pop_retries ==
  /\ Polling("print_keypresses")
  /\ running.task.pc = "pop2"
  /\ IF SCANCODE_QUEUE # <<>>
     THEN /\ SCANCODE_QUEUE' = Tail(SCANCODE_QUEUE)
          /\ PollContinues([running.task EXCEPT !.pc = "take",
                                                !.scancode = Head(SCANCODE_QUEUE)])
     ELSE /\ PollContinues([running.task EXCEPT !.pc = "register"])
          /\ UNCHANGED SCANCODE_QUEUE
  /\ UNCHANGED <<SCANCODE_INIT, WAKER, producer, phase, task_queue, held, fatal,
                 wakers_made, calls, pushed, delivered, reg_woken, last_poll,
                 since_pending, pass, polled_since, wake_credit>>

\* The second queue.pop(): a byte goes on to WAKER.take(), none suspends.
poll_next_second_pop ==
  /\ Polling("print_keypresses")
  /\ running.task.pc = "pop2"
  /\ IF SCANCODE_QUEUE # <<>>
     THEN /\ SCANCODE_QUEUE' = Tail(SCANCODE_QUEUE)
          /\ PollContinues([running.task EXCEPT !.pc = "take",
                                                !.scancode = Head(SCANCODE_QUEUE)])
          /\ UNCHANGED <<last_poll, since_pending>>
     ELSE /\ last_poll' = [result |-> "Pending", path |-> "slow", scancode |-> 0]
          /\ since_pending' = 0
          /\ PollReturns([running.task EXCEPT !.pc = "next"], "Pending")
          /\ UNCHANGED SCANCODE_QUEUE
  /\ UNCHANGED <<SCANCODE_INIT, WAKER, producer, phase, task_queue, held, fatal,
                 wakers_made, calls, pushed, delivered, reg_woken, pass, polled_since, wake_credit>>

\* Mutant of poll_next_take: the byte of the second pop is returned without
\* WAKER.take().
poll_next_take_keeps ==
  /\ Polling("print_keypresses")
  /\ running.task.pc = "take"
  /\ delivered' = Append(delivered, running.task.scancode)
  /\ last_poll' = [result |-> "Ready", path |-> "slow", scancode |-> running.task.scancode]
  /\ PollContinues([running.task EXCEPT !.pc = "next", !.scancode = 0])
  /\ UNCHANGED <<SCANCODE_INIT, SCANCODE_QUEUE, WAKER, producer, phase, task_queue, held,
                 fatal, wakers_made, calls, pushed, reg_woken, since_pending, pass,
                 polled_since, wake_credit>>

\* WAKER.take() and Poll::Ready(Some(scancode)).
poll_next_take ==
  /\ Polling("print_keypresses")
  /\ running.task.pc = "take"
  /\ WAKER' = NoWaker
  /\ delivered' = Append(delivered, running.task.scancode)
  /\ last_poll' = [result |-> "Ready", path |-> "slow", scancode |-> running.task.scancode]
  /\ PollContinues([running.task EXCEPT !.pc = "next", !.scancode = 0])
  /\ UNCHANGED <<SCANCODE_INIT, SCANCODE_QUEUE, producer, phase, task_queue, held, fatal,
                 wakers_made, calls, pushed, reg_woken, since_pending, pass, polled_since, wake_credit>>

(* ------------------- Executor (executor.rs 43-102) --------------------- *)

\* Mutant of Executor_spawn: the id is pushed before the map is consulted.
Executor_spawn_push_first(task) ==
  /\ Alive
  /\ phase = "setup"
  /\ tasks' = Put(tasks, task.id, task)
  /\ IF Len(task_queue) >= ReadyQueueCap
     THEN /\ fatal' = "queue full"
          /\ UNCHANGED <<task_queue, wake_credit>>
     ELSE /\ task_queue' = Append(task_queue, task.id)
          /\ wake_credit' = [wake_credit EXCEPT ![task.id] = @ + 1]
          /\ fatal' = IF task.id \in DOMAIN tasks
                      THEN "task with same ID already in tasks"
                      ELSE fatal
  /\ UNCHANGED <<streamVars, producer, phase, waker_cache, running, simple_queue, held,
                 wakers_made, calls, streamHistory, pass, polled_since>>

\* Executor::spawn: tasks.insert replaces and returns an old task of the same
\* id (panic), then the id is pushed (panic when the queue is full).
Executor_spawn(task) ==
  /\ Alive
  /\ phase = "setup"
  /\ tasks' = Put(tasks, task.id, task)
  /\ IF task.id \in DOMAIN tasks
     THEN /\ fatal' = "task with same ID already in tasks"
          /\ UNCHANGED <<task_queue, wake_credit>>
     ELSE IF Len(task_queue) < ReadyQueueCap
     THEN /\ task_queue' = Append(task_queue, task.id)
          /\ wake_credit' = [wake_credit EXCEPT ![task.id] = @ + 1]
          /\ UNCHANGED fatal
     ELSE /\ fatal' = "queue full"
          /\ UNCHANGED <<task_queue, wake_credit>>
  /\ UNCHANGED <<streamVars, producer, phase, waker_cache, running, simple_queue, held,
                 wakers_made, calls, streamHistory, pass, polled_since>>

\* Executor::run is entered: no spawn can follow, run takes &mut self and
\* never returns.
Executor_run ==
  /\ Alive
  /\ phase = "setup"
  /\ phase' = "run"
  /\ UNCHANGED <<streamVars, producer, tasks, task_queue, waker_cache, running,
                 simple_queue, held, fatal, wakers_made, calls, streamHistory, pass, polled_since, wake_credit>>

\* Mutant of task_queue_pop: the pop also discards the entry behind the head.
task_queue_pop_two == IF Len(task_queue) > 1 THEN Tail(Tail(task_queue)) ELSE <<>>

\* Mutant of task_queue_pop: the head entry is read and left in the queue.
task_queue_peek == task_queue

\* task_queue.pop() of run_ready_tasks: what is left of a non-empty queue.
task_queue_pop == Tail(task_queue)

\* Mutant of run_ready_tasks: the waker is fetched or created before the task
\* is looked up, so a stale id gets a cache entry.
run_ready_tasks_waker_first ==
  /\ Alive
  /\ phase = "run"
  /\ running = Idle
  /\ IF task_queue = <<>>
     THEN /\ pass' = [active |-> FALSE, left |-> 0, late |-> FALSE, skipped |-> FALSE]
          /\ UNCHANGED <<task_queue, waker_cache, wakers_made, running, wake_credit>>
     ELSE LET task_id == Head(task_queue)
              left == IF pass.active THEN pass.left ELSE Len(task_queue)
          IN /\ task_queue' = task_queue_pop
             /\ wake_credit' = [wake_credit EXCEPT ![task_id] = @ - 1]
             /\ pass' = [active |-> TRUE,
                         left |-> IF left > 0 THEN left - 1 ELSE 0,
                         late |-> left = 0,
                         skipped |-> task_id \notin DOMAIN tasks]
             /\ IF task_id \in DOMAIN waker_cache
                THEN UNCHANGED <<waker_cache, wakers_made>>
                ELSE /\ waker_cache' = Put(waker_cache, task_id,
                                           TaskWaker_new(task_id, wakers_made + 1))
                     /\ wakers_made' = wakers_made + 1
             /\ IF task_id \notin DOMAIN tasks
                THEN UNCHANGED running
                ELSE running' = [executor |-> "Executor", task |-> tasks[task_id],
                                 waker |-> waker_cache'[task_id]]
  /\ UNCHANGED <<streamVars, producer, phase, tasks, simple_queue, held, fatal, calls,
                 streamHistory, polled_since>>

\* One turn of the while-let of Executor::run_ready_tasks up to task.poll:
\* pop an id (an empty queue ends the call, and run's loop calls again), skip
\* an id with no task, fetch or create the waker, enter the poll.
run_ready_tasks ==
  /\ Alive
  /\ phase = "run"
  /\ running = Idle
  /\ IF task_queue = <<>>
     THEN /\ pass' = [active |-> FALSE, left |-> 0, late |-> FALSE, skipped |-> FALSE]
          /\ UNCHANGED <<task_queue, waker_cache, wakers_made, running, wake_credit>>
     ELSE LET task_id == Head(task_queue)
              left == IF pass.active THEN pass.left ELSE Len(task_queue)
          IN /\ task_queue' = task_queue_pop
             /\ wake_credit' = [wake_credit EXCEPT ![task_id] = @ - 1]
             /\ pass' = [active |-> TRUE,
                         left |-> IF left > 0 THEN left - 1 ELSE 0,
                         late |-> left = 0,
                         skipped |-> task_id \notin DOMAIN tasks]
             /\ IF task_id \notin DOMAIN tasks
                THEN UNCHANGED <<waker_cache, wakers_made, running>>
                ELSE /\ IF task_id \in DOMAIN waker_cache
                        THEN UNCHANGED <<waker_cache, wakers_made>>
                        ELSE /\ waker_cache' = Put(waker_cache, task_id,
                                                   TaskWaker_new(task_id, wakers_made + 1))
                             /\ wakers_made' = wakers_made + 1
                     /\ running' = [executor |-> "Executor", task |-> tasks[task_id],
                                    waker |-> waker_cache'[task_id]]
  /\ UNCHANGED <<streamVars, producer, phase, tasks, simple_queue, held, fatal, calls,
                 streamHistory, polled_since>>

(* ---------------- SimpleExecutor (executor.rs 11-40) ------------------- *)

\* SimpleExecutor::spawn: push_back; Task::new has given the task the next id
\* of its strictly increasing counter.
SimpleExecutor_spawn(task) ==
  /\ Alive
  /\ phase = "setup"
  /\ task.id = Len(simple_queue) + 1
  /\ simple_queue' = Append(simple_queue, task)
  /\ UNCHANGED <<streamVars, producer, phase, tasks, task_queue, waker_cache, running,
                 held, fatal, wakers_made, calls, streamHistory, pass, polled_since, wake_credit>>

\* SimpleExecutor::run is called.
SimpleExecutor_run_call ==
  /\ Alive
  /\ phase = "setup"
  /\ phase' = "run"
  /\ UNCHANGED <<streamVars, producer, tasks, task_queue, waker_cache, running,
                 simple_queue, held, fatal, wakers_made, calls, streamHistory, pass, polled_since, wake_credit>>

\* History of the polls of SimpleExecutor::run: a poll of `id` begins.
PollBegins(id) ==
  [t \in TaskIds |->
     IF t = id
     THEN [u \in TaskIds |-> 0]
     ELSE [polled_since[t] EXCEPT ![id] = IF @ < 2 THEN @ + 1 ELSE 2]]

\* One turn of the while-let of SimpleExecutor::run up to task.poll:
\* pop_front (an empty queue ends run), poll with a dummy waker.
SimpleExecutor_run ==
  /\ Alive
  /\ phase = "run"
  /\ running = Idle
  /\ IF simple_queue = <<>>
     THEN /\ phase' = "returned"
          /\ UNCHANGED <<simple_queue, running, polled_since, wake_credit>>
     ELSE /\ simple_queue' = Tail(simple_queue)
          /\ running' = [executor |-> "SimpleExecutor", task |-> Head(simple_queue),
                         waker |-> dummy_waker]
          /\ polled_since' = PollBegins(Head(simple_queue).id)
          /\ UNCHANGED phase
  /\ UNCHANGED <<streamVars, producer, tasks, task_queue, waker_cache, held, fatal,
                 wakers_made, calls, streamHistory, pass, wake_credit>>

(* --------------------------- specifications ---------------------------- *)

\* The producer context.
add_scancode ==
  \/ \E scancode \in Scancodes : add_scancode_push(scancode)
  \/ add_scancode_wake

\* ScancodeStream::poll_next inside print_keypresses' loop.
poll_next ==
  \/ poll_next_first_pop
  \/ poll_next_register
  \/ poll_next_second_pop
  \/ poll_next_take

\* The poller context: the ready-queue executor running the repository's two
\* futures, example_task and print_keypresses.
ExecutorKeyboard ==
  \/ \E id \in TaskIds, kind \in RepoKinds : Executor_spawn(Task_new(id, kind))
  \/ Executor_run
  \/ run_ready_tasks
  \/ example_task
  \/ ScancodeStream_new
  \/ poll_next

NextKeyboard ==
  \/ ExecutorKeyboard
  \/ add_scancode

\* The ready-queue executor with the keyboard stream and its producer.
SpecKeyboard == Init /\ [][NextKeyboard]_vars

\* The poller context: the ready-queue executor running futures that complete
\* at once and arbitrary futures that keep clones of their wakers.
ExecutorFutures ==
  \/ \E id \in TaskIds, kind \in {"example_task", "future"} :
       Executor_spawn(Task_new(id, kind))
  \/ Executor_run
  \/ run_ready_tasks
  \/ example_task
  \/ \E keep \in BOOLEAN, result \in {"Ready", "Pending"} : future_poll(keep, result)

NextFutures ==
  \/ ExecutorFutures
  \/ \E waker \in held, by_ref \in BOOLEAN : TaskWaker_wake(waker, by_ref)

\* The ready-queue executor with arbitrary futures and arbitrary wakes.
SpecFutures == Init /\ [][NextFutures]_vars

\* The poller context of the naive executor.
SimpleExecutorSteps ==
  \/ \E id \in TaskIds, kind \in Kinds : SimpleExecutor_spawn(Task_new(id, kind))
  \/ SimpleExecutor_run_call
  \/ SimpleExecutor_run
  \/ example_task
  \/ \E result \in {"Ready", "Pending"} : future_poll(FALSE, result)
  \/ ScancodeStream_new
  \/ poll_next

NextSimple ==
  \/ SimpleExecutorSteps
  \/ add_scancode

\* The naive executor, as main.rs uses it, with the producer.
SpecSimple == Init /\ [][NextSimple]_vars

\* The poller context executes its next instruction whenever it has one: the
\* run loops never block.  The producer context is under no obligation.
FairKeyboard == SpecKeyboard /\ WF_vars(ExecutorKeyboard)

FairFutures == SpecFutures /\ WF_vars(ExecutorFutures)

FairSimple == SpecSimple /\ WF_vars(SimpleExecutorSteps)

(* ------------------------------ claims --------------------------------- *)

\* The task is live in the ready-queue executor, has returned suspended from
\* its most recent poll and is not being polled.
Suspended(id) ==
  /\ id \in DOMAIN tasks
  /\ tasks[id].pc # "start"
  /\ running.task.id # id

\* A ready-queue entry for a suspended task: a wake delivered after its most
\* recent poll returned suspended.
WakePending(id) == phase = "run" /\ Suspended(id) /\ id \in Range(task_queue)

PolledNow(id) == running.executor = "Executor" /\ running.task.id = id

\* A step takes an entry of `id` off the ready queue only to poll the task or
\* on finding its task gone from the map.
EntryNeverDiscarded(id) ==
  Count(task_queue', id) < Count(task_queue, id)
    => \/ id \notin DOMAIN tasks
       \/ running = Idle /\ PolledNow(id)'

\* C1 as stated: a wake delivered for a suspended task always leads to
\* another poll of that task, and no ready-queue entry is discarded unpolled.
C1_NoLostWakeup_AsStated ==
  /\ \A id \in TaskIds : WakePending(id) ~> PolledNow(id)
  /\ [][\A id \in TaskIds : EntryNeverDiscarded(id)]_vars

\* What the code does guarantee towards C1: a wake delivered for a suspended
\* task leads to another poll of that task unless a panic aborts the process
\* first, and no ready-queue entry is discarded without polling its task or
\* finding the task completed.
C1_NoLostWakeup ==
  /\ \A id \in TaskIds : WakePending(id) ~> (PolledNow(id) \/ ~Alive)
  /\ [][\A id \in TaskIds : EntryNeverDiscarded(id)]_vars

\* A task that suspended, was woken and is being polled again.
C1_Witness ==
  /\ running.executor = "Executor"
  /\ running.task.id \in DOMAIN tasks
  /\ tasks[running.task.id].pc # "start"
  /\ reg_woken > 0

\* C7 as stated: with no more live tasks than the ready queue holds, no wake
\* finds the ready queue full (TaskWaker::wake_task never panics).
C7_WakeNeverFindsQueueFull ==
  Cardinality(DOMAIN tasks) <= ReadyQueueCap => fatal # "task queue full"

\* What C8 says of one call of Executor::spawn.
SpawnOutcome(task) ==
  /\ (task.id \notin DOMAIN tasks /\ Len(task_queue) < ReadyQueueCap)
       => /\ DOMAIN tasks' = DOMAIN tasks \cup {task.id}
          /\ tasks'[task.id] = task
          /\ \A id \in DOMAIN tasks : tasks'[id] = tasks[id]
          /\ task_queue' = Append(task_queue, task.id)
          /\ fatal' = "none"
  /\ task.id \in DOMAIN tasks => (fatal' # "none" /\ task_queue' = task_queue)
  /\ Len(task_queue) >= ReadyQueueCap => fatal' # "none"

\* C8: Executor::spawn of a fresh id below capacity adds exactly that task
\* and appends exactly one copy of its id; a duplicate id is fatal and pushes
\* nothing; a full ready queue is fatal.
C8_SpawnOutcomes ==
  [][\A id \in TaskIds, kind \in Kinds :
       Executor_spawn(Task_new(id, kind)) => SpawnOutcome(Task_new(id, kind))]_vars

\* A spawn that found the ready queue at capacity, after spawns that did not.
C8_Witness ==
  /\ fatal = "queue full"
  /\ Len(task_queue) = ReadyQueueCap
  /\ Cardinality(DOMAIN tasks) = ReadyQueueCap + 1

\* A poll of the ready-queue executor reports completion in this step.
PollReportsReady ==
  /\ running.executor = "Executor"
  /\ example_task \/ \E keep \in BOOLEAN : future_poll(keep, "Ready")

\* C9: a poll reporting completion removes the task and its cached waker in
\* that step; and once the run loop has drained the ready queue with no task
\* ever left suspended, the task map, the waker cache and the ready queue are
\* all empty.
C9_CompletionReclaims ==
  /\ [][PollReportsReady => /\ running.task.id \notin DOMAIN tasks'
                            /\ running.task.id \notin DOMAIN waker_cache']_vars
  /\ []((/\ phase = "run"
         /\ running = Idle
         /\ task_queue = <<>>
         /\ \A id \in DOMAIN tasks : tasks[id].pc = "start")
        => (tasks = <<>> /\ waker_cache = <<>>))

\* Two tasks were spawned, each completed on its first poll, and the loop has
\* drained the queue.
C9_Witness ==
  /\ phase = "run"
  /\ running = Idle
  /\ task_queue = <<>>
  /\ wakers_made = 2
  /\ held = {}
  /\ tasks = <<>>
  /\ waker_cache = <<>>

(* ----------------------- claims on the byte stream --------------------- *)

\* A poll_next call is in progress (print_keypresses is inside its loop).
InPollNext == running.task.kind = "print_keypresses" /\ running.task.pc # "start"

\* The consumer is suspended: its last poll_next reported Pending and it has
\* not been polled since.
ConsumerSuspended == last_poll.result = "Pending" /\ ~InPollNext

\* The byte a second pop has taken and poll_next has not yet returned.
InFlight == IF running.task.pc = "take" THEN <<running.task.scancode>> ELSE <<>>

\* C2: no pushed byte is lost across a poll: every byte pushed is delivered,
\* held by the returning poll or still queued; once the consumer is suspended
\* and the producer has finished, a queued byte means the waker registered by
\* the suspending poll has been invoked; and the poll that follows a suspension
\* returns the queued byte.
C2_RaceClosure ==
  /\ [](pushed = delivered \o InFlight \o SCANCODE_QUEUE)
  /\ []((ConsumerSuspended /\ producer.pc = "idle" /\ SCANCODE_QUEUE # <<>>)
          => reg_woken >= 1)
  /\ [][(poll_next_first_pop /\ last_poll.result = "Pending" /\ SCANCODE_QUEUE # <<>>)
          => last_poll' = [result |-> "Ready", path |-> "fast",
                           scancode |-> Head(SCANCODE_QUEUE)]]_vars

\* A poll whose first pop found the queue empty returned a byte pushed while
\* it was between its two pops, and the waker it had registered was invoked.
C2_Witness ==
  /\ last_poll.result = "Ready"
  /\ last_poll.path = "slow"
  /\ reg_woken = 1
  /\ pushed = delivered

\* C3: add_scancode on a full queue drops the new byte: the queue is
\* unchanged, the call returns, nothing fails and no waker is invoked; the
\* queue never holds more than its capacity.
C3_OverflowPolicy ==
  /\ [](Len(SCANCODE_QUEUE) <= ScancodeQueueCap)
  /\ [][\A scancode \in Scancodes :
          (/\ add_scancode_push(scancode)
           /\ SCANCODE_INIT
           /\ Len(SCANCODE_QUEUE) = ScancodeQueueCap)
          => /\ SCANCODE_QUEUE' = SCANCODE_QUEUE
             /\ pushed' = pushed
             /\ producer'.pc = "idle"
             /\ fatal' = "none"
             /\ WAKER' = WAKER
             /\ reg_woken' = reg_woken
             /\ task_queue' = task_queue]_vars

\* A byte was dropped on a full queue while a consumer waker was registered.
C3_Witness ==
  /\ producer.last = "full"
  /\ producer.pc = "idle"
  /\ Len(SCANCODE_QUEUE) = ScancodeQueueCap
  /\ WAKER # NoWaker

\* C5: a poll_next that suspends leaves the poller's waker registered until
\* it is invoked; once exactly one byte has then been pushed, the waker has
\* been invoked exactly once, the slot is empty, and the next poll_next returns
\* that byte without suspending.
C5_SuspendThenPush ==
  /\ []((ConsumerSuspended /\ reg_woken = 0)
          => \E id \in DOMAIN tasks :
               /\ tasks[id].kind = "print_keypresses"
               /\ tasks[id].pc = "next"
               /\ WAKER = waker_cache[id])
  /\ []((ConsumerSuspended /\ producer.pc = "idle" /\ since_pending = 1)
          => /\ reg_woken = 1
             /\ WAKER = NoWaker
             /\ SCANCODE_QUEUE = <<pushed[Len(pushed)]>>)
  /\ [][(poll_next_first_pop /\ last_poll.result = "Pending" /\ since_pending = 1)
          => /\ last_poll' = [result |-> "Ready", path |-> "fast",
                              scancode |-> pushed[Len(pushed)]]
             /\ running' # Idle]_vars

\* The poll after a suspension and one push has returned the pushed byte.
C5_Witness ==
  /\ last_poll.result = "Ready"
  /\ last_poll.path = "fast"
  /\ since_pending = 1
  /\ reg_woken = 1
  /\ delivered = pushed
  /\ Len(pushed) = 1

\* C6: a poll_next whose first pop finds a byte returns the head byte at
\* once, does not suspend and leaves the waker slot as it was.
C6_FastPath ==
  [][(poll_next_first_pop /\ SCANCODE_INIT /\ SCANCODE_QUEUE # <<>>)
       => /\ last_poll' = [result |-> "Ready", path |-> "fast",
                           scancode |-> Head(SCANCODE_QUEUE)]
          /\ delivered' = Append(delivered, Head(SCANCODE_QUEUE))
          /\ SCANCODE_QUEUE' = Tail(SCANCODE_QUEUE)
          /\ running' # Idle
          /\ WAKER' = WAKER
          /\ reg_woken' = reg_woken]_vars

\* The fast path was taken with a waker in the slot, which is still there.
C6_Witness ==
  /\ last_poll.path = "fast"
  /\ running.task.pc = "next"
  /\ WAKER # NoWaker

\* C10: add_scancode before the queue is initialized drops the byte, changes
\* nothing and returns; a second ScancodeStream::new panics and leaves the
\* first queue and its contents in place, and an initialized queue stays so.
C10_InitializationErrors ==
  /\ [][\A scancode \in Scancodes :
          (add_scancode_push(scancode) /\ ~SCANCODE_INIT)
          => /\ UNCHANGED <<streamVars, tasks, task_queue, waker_cache, running, fatal,
                            pushed, reg_woken>>
             /\ producer'.pc = "idle"]_vars
  /\ [][(ScancodeStream_new /\ SCANCODE_INIT)
          => /\ fatal' # "none"
             /\ UNCHANGED <<streamVars, pushed, delivered>>]_vars
  /\ [][SCANCODE_INIT => SCANCODE_INIT']_vars

\* A byte was dropped before initialization, and a second initialization
\* panicked over a queue that still holds its bytes.
C10_Witness ==
  /\ producer.uninit > 0
  /\ fatal = "ScancodeStream::new should only be called once"
  /\ SCANCODE_QUEUE # <<>>

(* ---------------------- claims on the naive executor ------------------- *)

Queued(id) == \E i \in 1..Len(simple_queue) : simple_queue[i].id = id

SimplePolled(id) == running.executor = "SimpleExecutor" /\ running.task.id = id

InSimpleExecutor(id) == Queued(id) \/ SimplePolled(id)

\* A task leaves the naive executor only in a step in which its poll reports
\* completion: a suspended task is always re-enqueued.
LeavesOnlyCompleted(id) ==
  (InSimpleExecutor(id) /\ ~InSimpleExecutor(id)')
    => /\ SimplePolled(id)
       /\ example_task \/ future_poll(FALSE, "Ready")

LateEntryPolled == pass.late /\ running.executor = "Executor"

\* C11 as stated: a call of run_ready_tasks polls only entries that were in
\* the ready queue when the call began; an entry enqueued during the call
\* waits for a later call.
C11_DrainPassOrdering_AsStated == ~LateEntryPolled

\* C11 amended: a call of run_ready_tasks takes the head entry each turn and
\* polls its task if live, polls happen only inside a call, and the call ends
\* only on finding the ready queue empty, so an entry enqueued before that is
\* handled by the same call.
C11_DrainPassOrdering ==
  /\ [][(run_ready_tasks /\ task_queue # <<>>)
          => /\ task_queue' = Tail(task_queue)
             /\ pass'.active
             /\ IF Head(task_queue) \in DOMAIN tasks
                THEN /\ running'.executor = "Executor"
                     /\ running'.task = tasks[Head(task_queue)]
                ELSE running' = Idle]_vars
  /\ [][(pass.active /\ ~pass'.active) => (run_ready_tasks /\ task_queue = <<>>)]_vars
  /\ [](running.executor = "Executor" => pass.active)

\* The keyboard task was woken during a call of run_ready_tasks and is polled
\* again by that same call.
C11_Witness ==
  /\ LateEntryPolled
  /\ running.task.kind = "print_keypresses"
  /\ running.task.pc = "next"
  /\ reg_woken > 0

\* What C12 says of one invocation of a TaskWaker: one copy of the bound id
\* is appended to the ready queue and nothing else changes.
WakeAppendsOnly(waker) ==
  /\ task_queue' = Append(task_queue, waker.task_id)
  /\ UNCHANGED <<tasks, waker_cache, streamVars, running, fatal>>

\* C12 as stated: from every state, wake and wake_by_ref of a TaskWaker each
\* append exactly one copy of the bound task id to the ready queue and change
\* nothing else, whether or not the bound task is still live.
C12_WakeEffect_AsStated ==
  [][\A waker \in held, by_ref \in BOOLEAN :
       TaskWaker_wake(waker, by_ref) => WakeAppendsOnly(waker)]_vars

\* What the code does guarantee towards C12: the same, from every state in
\* which the ready queue is below its capacity.
C12_WakeEffect_BelowCapacity ==
  [][\A waker \in held, by_ref \in BOOLEAN :
       (TaskWaker_wake(waker, by_ref) /\ Len(task_queue) < ReadyQueueCap)
         => WakeAppendsOnly(waker)]_vars

\* A wake whose bound task has completed has left its id in the ready queue.
C12_Witness ==
  /\ task_queue # <<>>
  /\ \A i \in 1..Len(task_queue) : task_queue[i] \notin DOMAIN tasks
  /\ fatal = "none"

\* The task has returned from at least one poll (suspended: a completed task
\* is not in the map).
PolledOnce(id) == tasks[id].pc # "start"

\* C13: between polls the waker cache holds exactly the live tasks that have
\* been polled; a task's first poll creates its entry with a new TaskWaker,
\* every poll is handed the cached handle, an entry is never replaced, and
\* dequeuing a stale id creates nothing.
C13_WakerCache ==
  /\ [](running = Idle
          => /\ DOMAIN waker_cache \subseteq DOMAIN tasks
             /\ \A id \in DOMAIN tasks : id \in DOMAIN waker_cache <=> PolledOnce(id))
  /\ [](running.executor = "Executor"
          => /\ running.task.id \in DOMAIN waker_cache
             /\ running.waker = waker_cache[running.task.id]
             /\ running.waker.task_id = running.task.id)
  /\ [][\A id \in DOMAIN waker_cache \cap DOMAIN waker_cache' :
          waker_cache'[id] = waker_cache[id]]_vars
  /\ [][(run_ready_tasks /\ task_queue # <<>>)
          => IF Head(task_queue) \in DOMAIN tasks \ DOMAIN waker_cache
             THEN /\ wakers_made' = wakers_made + 1
                  /\ DOMAIN waker_cache' = DOMAIN waker_cache \cup {Head(task_queue)}
             ELSE UNCHANGED <<waker_cache, wakers_made>>]_vars

\* A task is polled for the second time with the handle made on its first
\* poll, after another task was given its own handle and completed.
C13_Witness ==
  /\ running.executor = "Executor"
  /\ running.task.pc # "start"
  /\ running.waker = waker_cache[running.task.id]
  /\ running.waker.serial = 1
  /\ wakers_made = 2
  /\ Cardinality(DOMAIN tasks) = 1

\* C14: when run_ready_tasks dequeues an id with no task in the map, no task
\* is polled, the map and the waker cache are unchanged, exactly that one
\* occurrence leaves the ready queue, nothing fails, and the call is still in
\* its loop, ready to dequeue the next id.
C14_StaleWakeSkipped ==
  [][(run_ready_tasks /\ task_queue # <<>> /\ Head(task_queue) \notin DOMAIN tasks)
       => /\ running' = Idle
          /\ UNCHANGED <<tasks, waker_cache, wakers_made, held, fatal, phase, streamVars>>
          /\ task_queue' = Tail(task_queue)
          /\ pass'.active]_vars

\* A stale id was skipped while another copy of it and a live task's id are
\* still to be dequeued.
C14_Witness ==
  /\ pass.skipped
  /\ running = Idle
  /\ Alive
  /\ \E i \in 1..Len(task_queue) : task_queue[i] \notin DOMAIN tasks
  /\ \E i \in 1..Len(task_queue) : task_queue[i] \in DOMAIN tasks

(* ------------------ claims on the double-check protocol ---------------- *)

\* C15: a poll_next whose first pop fails registers the poller's waker and
\* pops once more; a byte from the second pop is returned after WAKER.take()
\* has emptied the slot, and a push that finds the slot empty invokes nothing;
\* an empty second pop returns Pending at once and does not touch the slot,
\* which then holds the poller's waker unless a wake has already taken it;
\* no path leads from the second pop back to another pop.
C15_SingleRetry ==
  /\ [][(poll_next_first_pop /\ SCANCODE_INIT /\ SCANCODE_QUEUE = <<>>)
          => /\ running'.task.pc = "register"
             /\ UNCHANGED <<streamVars, delivered, last_poll>>]_vars
  /\ [][poll_next_register
          => /\ WAKER' = running.waker
             /\ running'.task.pc = "pop2"
             /\ UNCHANGED <<SCANCODE_QUEUE, delivered, last_poll>>]_vars
  /\ [][poll_next_second_pop
          => IF SCANCODE_QUEUE # <<>>
             THEN /\ running'.task.pc = "take"
                  /\ running'.task.scancode = Head(SCANCODE_QUEUE)
                  /\ SCANCODE_QUEUE' = Tail(SCANCODE_QUEUE)
             ELSE /\ running' = Idle
                  /\ last_poll'.result = "Pending"
                  /\ UNCHANGED streamVars
                  /\ WAKER = running.waker \/ reg_woken >= 1]_vars
  /\ [][poll_next_take
          => /\ WAKER' = NoWaker
             /\ running'.task.pc = "next"
             /\ delivered' = Append(delivered, running.task.scancode)
             /\ last_poll' = [result |-> "Ready", path |-> "slow",
                              scancode |-> running.task.scancode]]_vars
  /\ []((last_poll.path = "slow" /\ last_poll.result = "Ready"
           /\ running.task.pc \in {"next", "register"})
          => WAKER = NoWaker)
  /\ [][(add_scancode_wake /\ WAKER = NoWaker)
          => UNCHANGED <<task_queue, reg_woken, fatal>>]_vars

\* The second pop returned a byte, the slot was cleared, and a byte pushed
\* after that lies in the queue with no wake delivered to the ready queue.
C15_Witness ==
  /\ last_poll.path = "slow"
  /\ last_poll.result = "Ready"
  /\ running.task.pc = "next"
  /\ producer.pc = "idle"
  /\ SCANCODE_QUEUE # <<>>
  /\ WAKER = NoWaker
  /\ reg_woken = 0
  /\ task_queue = <<>>

(* ------------- claims on the naive executor's termination -------------- *)

\* The ids waiting in the naive executor's queue.
QueuedIds == {simple_queue[i].id : i \in 1..Len(simple_queue)}

\* C16: SimpleExecutor::run returns exactly on finding its queue empty, and
\* does return once the queue is empty; when it begins another poll of a
\* suspended task, it has begun exactly one poll of every other task still in
\* the queue since the previous poll of that task; a task that has left the
\* executor (its poll reported completion) never comes back, so it is never
\* polled again, and polls are only of the task just popped from the head.
C16_NaiveTermination ==
  /\ [][SimpleExecutor_run => (phase' = "returned" <=> simple_queue = <<>>)]_vars
  /\ [](phase = "returned" => (simple_queue = <<>> /\ running = Idle))
  /\ (phase = "run" /\ simple_queue = <<>> /\ running = Idle) ~> (phase = "returned")
  /\ [][(SimpleExecutor_run /\ simple_queue # <<>>)
          => /\ running'.task = Head(simple_queue)
             /\ simple_queue' = Tail(simple_queue)
             /\ Head(simple_queue).pc # "start"
                  => \A i \in 2..Len(simple_queue) :
                       polled_since[Head(simple_queue).id][simple_queue[i].id] = 1]_vars
  /\ [][\A id \in TaskIds :
          /\ (phase # "setup" /\ ~InSimpleExecutor(id)) => ~InSimpleExecutor(id)'
          /\ (SimplePolled(id) /\ (example_task \/ future_poll(FALSE, "Ready")))
               => ~InSimpleExecutor(id)'
          /\ SimplePolled(id)' => (SimplePolled(id) \/ (running = Idle /\ Queued(id)))]_vars
  /\ [](Len(simple_queue) = Cardinality(QueuedIds) /\ running.task.id \notin QueuedIds)

\* run has returned after a task (v) was suspended and polled again, another
\* task (u) having been polled exactly once in between (t: an id whose count
\* runs from the start).
C16_Witness ==
  /\ phase = "returned"
  /\ \E t, u, v \in TaskIds :
       /\ polled_since[t][v] = 2
       /\ polled_since[t][u] = 1
       /\ polled_since[u][v] = 1

\* C17: the slot holds one waker or none; a registration replaces whatever
\* the slot held with the poller's waker; the wake of a successful push takes
\* the waker out of the slot and invokes that one only (one id pushed at
\* most), so a registration is invoked at most once, and a wake that finds the
\* slot empty invokes nothing.
C17_SingleSlot ==
  /\ [](WAKER = NoWaker \/ WAKER = dummy_waker
          \/ \E id \in DOMAIN waker_cache : WAKER = waker_cache[id])
  /\ [][poll_next_register => (WAKER' = running.waker /\ reg_woken' = 0)]_vars
  /\ [][add_scancode_wake
          => /\ WAKER' = NoWaker
             /\ IF WAKER.kind = "task"
                THEN /\ reg_woken' = reg_woken + 1
                     /\ \/ task_queue' = Append(task_queue, WAKER.task_id)
                        \/ task_queue' = task_queue /\ fatal' = "task queue full"
                ELSE UNCHANGED <<task_queue, fatal>>]_vars
  /\ [](reg_woken <= 1)
  /\ [][(add_scancode_wake /\ WAKER = NoWaker) => UNCHANGED <<reg_woken, task_queue>>]_vars

\* Two bytes were pushed after the consumer suspended: the first push invoked
\* the registered waker, the second found the slot empty and invoked nothing.
C17_Witness ==
  /\ ConsumerSuspended
  /\ since_pending = 2
  /\ producer.pc = "idle"
  /\ WAKER = NoWaker
  /\ reg_woken = 1
  /\ Len(task_queue) = 1

\* A poll of `id` by the ready-queue executor begins in this step.
PollStarts(id) == PolledNow(id)' /\ ~PolledNow(id)

\* C18: the ready-queue executor begins a poll of a task only in the step
\* that dequeues the head entry, which is that task's id, so the polls of a
\* task never outnumber its spawn plus the wakes issued for it; a task with
\* no entry owed to it is not polled; an id that has left the task map (its
\* poll reported completion) is never polled again.
C18_PollsNeedWakes ==
  /\ [][\A id \in TaskIds :
          PollStarts(id) => /\ run_ready_tasks
                            /\ task_queue # <<>>
                            /\ Head(task_queue) = id
                            /\ Count(task_queue', id) = Count(task_queue, id) - 1]_vars
  /\ [](\A id \in TaskIds : wake_credit[id] >= 0)
  /\ [][\A id \in TaskIds : wake_credit[id] = 0 => ~PollStarts(id)]_vars
  /\ [][\A id \in TaskIds :
          (phase = "run" /\ id \notin DOMAIN tasks)
            => (id \notin DOMAIN tasks' /\ ~PolledNow(id)')]_vars

\* A suspended task has used up its spawn and its wakes and waits unpolled,
\* while another task has completed and a wake issued for it is still queued.
C18_Witness ==
  /\ phase = "run"
  /\ running = Idle
  /\ Alive
  /\ \E id \in DOMAIN tasks : Suspended(id) /\ wake_credit[id] = 0 /\ id \in DOMAIN waker_cache
  /\ \E id \in TaskIds : id \notin DOMAIN tasks /\ wake_credit[id] > 0

(* ----------------------- claims on byte delivery ----------------------- *)

IsPrefix(s, t) == Len(s) <= Len(t) /\ \A i \in 1..Len(s) : s[i] = t[i]

\* C19: the bytes returned by successive poll_next calls are, in order, the
\* first of the bytes add_scancode pushed successfully; each return hands out
\* the oldest pushed byte not yet returned; a Ready result always carries a
\* byte, and the task reading the stream never completes.
C19_InOrderExactlyOnce ==
  /\ [](IsPrefix(delivered, pushed))
  /\ [][delivered' # delivered
          => /\ poll_next_first_pop \/ poll_next_take
             /\ Len(delivered) < Len(pushed)
             /\ delivered' = Append(delivered, pushed[Len(delivered) + 1])
             /\ last_poll' = [result |-> "Ready", path |-> last_poll'.path,
                              scancode |-> pushed[Len(delivered) + 1]]]_vars
  /\ [][pushed' # pushed
          => \E scancode \in Scancodes :
               /\ add_scancode_push(scancode)
               /\ pushed' = Append(pushed, scancode)
               /\ SCANCODE_QUEUE' = Append(SCANCODE_QUEUE, scancode)]_vars
  /\ [](last_poll.result = "Ready" => last_poll.scancode \in Scancodes)
  /\ [][\A id \in DOMAIN tasks :
          tasks[id].kind = "print_keypresses" => id \in DOMAIN tasks']_vars

\* Three bytes were pushed and the first two, which differ, have been
\* returned in order, the second by the slow path.
C19_Witness ==
  /\ Len(pushed) = 3
  /\ Len(delivered) = 2
  /\ delivered[1] # delivered[2]
  /\ last_poll.path = "slow"
  /\ last_poll.result = "Ready"

\* poll_next has passed its first pop and has not returned.
PollNextMidExecution ==
  running.task.kind = "print_keypresses" /\ running.task.pc \in {"register", "pop2", "take"}

\* Neither poll_next nor add_scancode is mid-execution.
Quiescent == ~PollNextMidExecution /\ producer.pc = "idle"

\* C20: in every quiescent state a waker in the slot means an empty byte
\* queue; and in every quiescent state with the consumer suspended and a byte
\* queued, the waker registered by the suspending poll has been invoked and
\* the slot is empty.
C20_QuiescentInvariant ==
  /\ []((Quiescent /\ WAKER # NoWaker) => SCANCODE_QUEUE = <<>>)
  /\ []((Quiescent /\ ConsumerSuspended /\ SCANCODE_QUEUE # <<>>)
          => (reg_woken = 1 /\ WAKER = NoWaker))

\* The consumer is suspended, a byte is queued, and the wake of its push has
\* emptied the slot and put the consumer's id on the ready queue.
C20_Witness ==
  /\ Quiescent
  /\ running = Idle
  /\ ConsumerSuspended
  /\ SCANCODE_QUEUE # <<>>
  /\ WAKER = NoWaker
  /\ \E id \in DOMAIN tasks : tasks[id].kind = "print_keypresses" /\ task_queue = <<id>>

====
